---- MODULE Spec2Model ----
(***************************************************************************)
(* Model of the fio libblkio I/O engine (engines/libblkio.c).              *)
(*                                                                         *)
(* The engine is a set of callbacks invoked by one worker thread.  The     *)
(* libblkio library, libc and the fio core are the environment: every      *)
(* call into them is an entry of the call log of the handler that makes    *)
(* it, its result is an input of the handler, and its effect on the        *)
(* resources (blkio instances, heap blocks, memory regions, the queue) is  *)
(* kept in the state.                                                      *)
(*                                                                         *)
(* Three specifications share the handlers:                                *)
(*   Spec       the life cycle: setup, init, post_init, iomem_alloc,       *)
(*              iomem_free, cleanup                                        *)
(*   SpecIO     a started worker: queue, getevents, event and the device   *)
(*   SpecAlign  iomem_alloc over every size and alignment of the           *)
(*              (scaled-down) size_t                                       *)
(***************************************************************************)
EXTENDS Integers, Sequences, FiniteSets, TLC

VARIABLES
    opt,            \* struct fio_blkio_options (td->eo) and td->o, fixed
    phase,          \* how far the harness got: new, setup_ok, ...
    last,           \* the handler called last and what it returned (0 so far)
    log,            \* the library calls the last handler made, in order
    res,            \* blkio instances and heap blocks
    td_data,        \* td->io_ops_data: "NULL" or "data"
    data_b,         \* data->b: "NULL" or the instance
    file_size,      \* td->files[0]->real_file_size: "unset" or "capacity"
    has_mem_region, \* data->has_mem_region
    mem_region,     \* data->mem_region: 0 (zeroed) or a region id
    regions,        \* the regions blkio_alloc_mem_region handed out
    ext_mapped,     \* whether the buffer of the fio core is mapped as a region
    orig_buffer,    \* td->orig_buffer: 0 (the buffer of the fio core) or the
                    \* region iomem_alloc set it to
    ub,             \* "none", or the undefined behaviour that ended the run
    req_size,       \* the size iomem_alloc is called with
    mem_align,      \* the backend's "mem-region-alignment"
    alloc_req,      \* the last blkio_alloc_mem_region request
    iou,            \* the harness's io_u pool
    enq,            \* requests enqueued on the blkioq, not yet submitted
    dev,            \* requests the device is working on
    cq,             \* completions the queue holds, oldest first
    efd,            \* whether the completion eventfd is readable
    completions,    \* data->completions[]
    ge,             \* the running (or last) fio_blkio_getevents call
    ev,             \* the event the harness translates next (i), and the
                    \* io_u and error the last handler handed back, if any
    props           \* one fio_blkio_set_props_from_str call on a string of
                    \* characters: its argument and what it did

lifeVars == <<phase, last, log, res, td_data, data_b, file_size>>
memVars  == <<has_mem_region, mem_region, regions, ext_mapped, orig_buffer,
              req_size,
              mem_align, alloc_req>>
ioVars   == <<iou, enq, dev, cq, efd, completions, ge, ev>>
vars     == <<opt, lifeVars, memVars, ioVars, ub, props>>

(***************************************************************************)
(* Bounds of the model.                                                    *)
(***************************************************************************)
IoDepth    == 2     \* td->o.iodepth: io_u's and completion slots
MaxRegions == 3     \* regions the backend hands out in one run
SizeBits   == 4     \* width of the scaled-down size_t

(***************************************************************************)
(* errno values.                                                           *)
(***************************************************************************)
ENOENT  == 2
ENOTSUP == 95

Min2(a, b) == IF a < b THEN a ELSE b

RECURSIVE Pow2(_)
Pow2(n) == IF n = 0 THEN 1 ELSE 2 * Pow2(n - 1)

SizeMod == Pow2(SizeBits)
Sizes   == 0 .. (SizeMod - 1)

(***************************************************************************)
(* Options.  A property string is absent (NULL) or a list of entries; an   *)
(* entry is a name=value pair, an entry without '=', or one whose name is  *)
(* empty.  The entries are separated by ':'; trail says that one more ':'  *)
(* follows the last entry ("a=b:").                                        *)
(***************************************************************************)
WaitModes == {"block", "eventfd", "loop"}

NullStr     == [null |-> TRUE, ents |-> <<>>, trail |-> FALSE]
Str(e)      == [null |-> FALSE, ents |-> e, trail |-> FALSE]
StrColon(e) == [null |-> FALSE, ents |-> e, trail |-> TRUE]

PropStrs == {NullStr, Str(<<>>), Str(<<"pair">>), Str(<<"pair", "pair">>),
             Str(<<"pair", "noeq">>), Str(<<"noname">>),
             StrColon(<<>>), StrColon(<<"pair">>)}

Options == [driver : {"NULL", "drv"}, hipri : BOOLEAN, wait_mode : WaitModes,
            force_fd : BOOLEAN, vectored : BOOLEAN, wz : BOOLEAN,
            pre_connect_props : PropStrs, pre_start_props : PropStrs]

(***************************************************************************)
(* The call log.  An entry is one call into libblkio or libc: the          *)
(* function, the object it is applied to, and what it returned.            *)
(***************************************************************************)
Call(fn, arg, r) == [fn |-> fn, arg |-> arg, ret |-> r]

Insts == {"sizing", "worker"}
Objs  == {"data", "iovecs", "completions"}

NoRes == [blk      |-> [i \in Insts |-> "none"],
          ndestroy |-> [i \in Insts |-> 0],
          heap     |-> [x \in Objs |-> "none"],
          nfree    |-> [x \in Objs |-> 0]]

(* The effect of one call on the resources.  blkio_destroy(&p) and free(p) *)
(* do nothing when p is NULL: the log then names "NULL".  Releasing what   *)
(* was never acquired leaves it "wild".                                    *)
Effect(r, c) ==
    IF c.fn = "blkio_create" /\ c.ret = 0
    THEN [r EXCEPT !.blk[c.arg] = "created"]
    ELSE IF c.fn = "blkio_connect" /\ c.ret = 0
    THEN [r EXCEPT !.blk[c.arg] = "connected"]
    ELSE IF c.fn = "blkio_start" /\ c.ret = 0
    THEN [r EXCEPT !.blk[c.arg] = "started"]
    ELSE IF c.fn = "blkio_destroy" /\ c.arg \in Insts
    THEN [r EXCEPT !.blk[c.arg] = IF @ = "none" THEN "wild" ELSE "destroyed",
                   !.ndestroy[c.arg] = @ + 1]
    ELSE IF c.fn = "calloc" /\ c.ret = 0
    THEN [r EXCEPT !.heap[c.arg] = "live"]
    ELSE IF c.fn = "free" /\ c.arg \in Objs
    THEN [r EXCEPT !.heap[c.arg] = IF @ = "none" THEN "wild" ELSE "freed",
                   !.nfree[c.arg] = @ + 1]
    ELSE r

RECURSIVE Replay(_, _)
Replay(r, l) == IF l = <<>> THEN r ELSE Replay(Effect(r, Head(l)), Tail(l))

(***************************************************************************)
(* fio_blkio_set_props_from_str.  ents are the entries get_next_str has    *)
(* still to hand out, k counts the blkio_set_str calls made so far and rej *)
(* is the call the backend rejects (0: none).  get_next_str moves new_str  *)
(* behind the ':' that ends the entry it hands out, or sets it to NULL     *)
(* when no ':' follows the entry; at the end of the string it returns NULL *)
(* and leaves new_str alone.  freed is what new_str is when the loop is    *)
(* left.  Before any entry (k = 0) the string "" has none and new_str is   *)
(* still the copy; the string ":" has one empty entry, which has no '='    *)
(* and after which new_str is NULL.                                        *)
(***************************************************************************)
AfterEntry(ents, trail) ==
    IF Tail(ents) = <<>> /\ ~trail THEN "NULL" ELSE "inside new_str"

RECURSIVE PropsLoop(_, _, _, _, _)
PropsLoop(inst, ents, trail, k, rej) ==
    IF ents = <<>> /\ k = 0
    THEN IF trail
         THEN [ret |-> 1, log |-> <<>>, freed |-> "NULL"]
         ELSE [ret |-> 0, log |-> <<>>, freed |-> "new_str"]
    ELSE IF ents = <<>>
    THEN [ret |-> 0, log |-> <<>>,
          freed |-> IF trail THEN "inside new_str" ELSE "NULL"]
    ELSE IF Head(ents) = "noeq"
    THEN [ret |-> 1, log |-> <<>>, freed |-> AfterEntry(ents, trail)]
    ELSE IF Head(ents) = "noname"
    THEN [ret |-> 1, log |-> <<>>, freed |-> AfterEntry(ents, trail)]
    ELSE IF rej = k + 1
         THEN [ret |-> 1, log |-> <<Call("blkio_set_str", inst, -1)>>,
               freed |-> AfterEntry(ents, trail)]
         ELSE LET rest == PropsLoop(inst, Tail(ents), trail, k + 1, rej)
              IN  [ret |-> rest.ret,
                   log |-> <<Call("blkio_set_str", inst, 0)>> \o rest.log,
                   freed |-> rest.freed]

(* no undefined behaviour, and the call returned *)
NoUb == [ub |-> "none", abort |-> FALSE]

(* the call returned, u being the undefined behaviour met on the way *)
ReturnedWith(u) == [ub |-> u, abort |-> FALSE]

(* free(new_str) at the end: of NULL (the copy is never freed), of the     *)
(* copy when the string has no entry, or of an address inside the copy.    *)
(* The last is undefined: bf says whether free() returns or ends the       *)
(* process (abort: the last call of the log did not return, ret is -1).    *)
SetPropsFree(ret, l, freed, bf) ==
    IF freed # "inside new_str"
    THEN [ret |-> ret, log |-> Append(l, Call("free", freed, 0))] @@ NoUb
    ELSE IF bf = "aborts"
    THEN [ret |-> -1, log |-> Append(l, Call("free", freed, 0)),
          ub |-> "invalid_free", abort |-> TRUE]
    ELSE [ret |-> ret, log |-> Append(l, Call("free", freed, 0)),
          ub |-> "invalid_free", abort |-> FALSE]

SetPropsEnd(r, bf) ==
    SetPropsFree(r.ret, <<Call("strdup", "str", 0)>> \o r.log, r.freed, bf)

SetPropsFromStr(inst, str, rej, dup, bf) ==
    IF str.null THEN [ret |-> 0, log |-> <<>>] @@ NoUb
    ELSE IF dup # 0
    THEN [ret |-> 1, log |-> <<Call("strdup", "str", -1)>>] @@ NoUb
    ELSE SetPropsEnd(PropsLoop(inst, str.ents, str.trail, 0, rej), bf)

(***************************************************************************)
(* What the environment answers to the calls of create_and_connect: any    *)
(* answer to each call that is made.  A call after the first failing one   *)
(* is never made, so its answer is left at 0.  pre_rej and start_rej name  *)
(* the blkio_set_str call the backend rejects (0: none), pre_dup and       *)
(* start_dup are the results of strdup, and bad_free is what free() does   *)
(* when it is handed an address inside a block.                            *)
(***************************************************************************)
ConnectOk(d) ==
    [create |-> 0, direct |-> d, ro |-> 0, pre_rej |-> 0, pre_dup |-> 0,
     connect |-> 0, start_rej |-> 0, start_dup |-> 0, bad_free |-> "returns"]

ConnectOutcomes ==
    {[ConnectOk(0) EXCEPT !.create = -1], ConnectOk(-1)}
    \cup UNION {{ConnectOk(d),
                 [ConnectOk(d) EXCEPT !.bad_free = "aborts"],
                 [ConnectOk(d) EXCEPT !.ro = -1],
                 [ConnectOk(d) EXCEPT !.pre_rej = 1],
                 [ConnectOk(d) EXCEPT !.pre_rej = 1, !.bad_free = "aborts"],
                 [ConnectOk(d) EXCEPT !.pre_dup = -1],
                 [ConnectOk(d) EXCEPT !.connect = -1],
                 [ConnectOk(d) EXCEPT !.start_rej = 1],
                 [ConnectOk(d) EXCEPT !.start_rej = 1, !.bad_free = "aborts"],
                 [ConnectOk(d) EXCEPT !.start_dup = -1]} : d \in {0, -ENOENT}}

(* err_blkio_destroy of fio_blkio_create_and_connect *)
ConnectErrDestroy(inst, l) ==
    [ret |-> 1, log |-> Append(l, Call("blkio_destroy", inst, 0)),
     b |-> "NULL"]

(***************************************************************************)
(* fio_blkio_create_and_connect: its return value, its calls, and *out.    *)
(* When free() ends the process inside fio_blkio_set_props_from_str the    *)
(* log stops there: nothing is destroyed.                                  *)
(***************************************************************************)
ConnectAborted(l, p) ==
    [ret |-> -1, log |-> l \o p.log, b |-> "NULL", ub |-> p.ub,
     abort |-> TRUE]

(* after the pre-start properties (p, with the calls l before them); u is *)
(* the undefined behaviour met before them                                 *)
ConnectAfterPreStart(inst, l, p, u) ==
    IF p.abort THEN ConnectAborted(l, p)
    ELSE IF p.ret # 0
    THEN ConnectErrDestroy(inst, l \o p.log)
         @@ ReturnedWith(IF u # "none" THEN u ELSE p.ub)
    ELSE [ret |-> 0, log |-> l \o p.log, b |-> inst]
         @@ ReturnedWith(IF u # "none" THEN u ELSE p.ub)

(* blkio_connect and what follows it *)
ConnectAndAfter(o, inst, bo, l, u) ==
    IF bo.connect # 0
    THEN ConnectErrDestroy(inst, l) @@ ReturnedWith(u)
    ELSE ConnectAfterPreStart(inst, l,
             SetPropsFromStr(inst, o.pre_start_props, bo.start_rej,
                             bo.start_dup, bo.bad_free), u)

(* after the pre-connect properties (p, with the calls l before them) *)
ConnectAfterPreConnect(o, inst, bo, l, p) ==
    IF p.abort THEN ConnectAborted(l, p)
    ELSE IF p.ret # 0
    THEN ConnectErrDestroy(inst, l \o p.log) @@ ReturnedWith(p.ub)
    ELSE ConnectAndAfter(o, inst, bo,
             Append(l \o p.log, Call("blkio_connect", inst, bo.connect)),
             p.ub)

CreateAndConnect(o, inst, bo) ==
    IF o.driver = "NULL" THEN [ret |-> 1, log |-> <<>>, b |-> "NULL"] @@ NoUb
    ELSE
    LET l1 == <<Call("blkio_create", inst, bo.create)>> IN
    IF bo.create # 0 THEN [ret |-> 1, log |-> l1, b |-> "NULL"] @@ NoUb
    ELSE
    LET l2 == Append(l1, Call("blkio_set_bool:direct", inst, bo.direct)) IN
    IF bo.direct # 0 /\ bo.direct # -ENOENT
    THEN ConnectErrDestroy(inst, l2) @@ NoUb
    ELSE
    LET l3 == Append(l2, Call("blkio_set_bool:read-only", inst, bo.ro)) IN
    IF bo.ro # 0 THEN ConnectErrDestroy(inst, l3) @@ NoUb
    ELSE ConnectAfterPreConnect(o, inst, bo, l3,
             SetPropsFromStr(inst, o.pre_connect_props, bo.pre_rej,
                             bo.pre_dup, bo.bad_free))

(***************************************************************************)
(* fio_blkio_setup: the sizing pass.  cap is what blkio_get_uint64         *)
(* ("capacity") returns.                                                   *)
(***************************************************************************)
(* faulty variant: the check of the forced completion eventfd is missing *)
SetupRejectsOnlyEventfd(o) == o.hipri /\ o.wait_mode = "eventfd"

SetupRejects(o) ==
    \/ o.hipri /\ o.wait_mode = "eventfd"
    \/ o.hipri /\ o.force_fd

(* after the connector (c): the capacity query and the destroy *)
SetupAfterConnect(c, cap) ==
    IF c.abort
    THEN [ret |-> -1, log |-> c.log, size |-> "unset", ub |-> c.ub,
          abort |-> TRUE]
    ELSE IF c.ret # 0
    THEN [ret |-> 1, log |-> c.log, size |-> "unset", ub |-> c.ub,
          abort |-> FALSE]
    ELSE [ret  |-> IF cap # 0 THEN 1 ELSE 0,
          log  |-> c.log \o <<Call("blkio_get_uint64:capacity", c.b, cap),
                             Call("blkio_destroy", c.b, 0)>>,
          size |-> IF cap # 0 THEN "unset" ELSE "capacity"]
         @@ ReturnedWith(c.ub)

SetupRun(o, bo, cap) ==
    IF SetupRejects(o)
    THEN [ret |-> 1, log |-> <<>>, size |-> "unset"] @@ NoUb
    ELSE SetupAfterConnect(CreateAndConnect(o, "sizing", bo), cap)

FioBlkioSetup ==
    /\ phase = "new"
    /\ ub = "none"
    /\ \E bo \in ConnectOutcomes, cap \in {0, -1} :
         LET s == SetupRun(opt, bo, cap) IN
         /\ log' = s.log
         /\ res' = Replay(res, s.log)
         /\ file_size' = s.size
         /\ last' = [op |-> "setup", ret |-> s.ret]
         /\ phase' = IF s.abort THEN "aborted"
                     ELSE IF s.ret = 0 THEN "setup_ok" ELSE "setup_failed"
         /\ ub' = s.ub
    /\ UNCHANGED <<props, opt, td_data, data_b, memVars, ioVars>>

(***************************************************************************)
(* fio_blkio_init.                                                         *)
(***************************************************************************)
InitOk ==
    [data |-> 0, iovecs |-> 0, completions |-> 0, nq |-> 0, npq |-> 0,
     start |-> 0, getfl |-> 0, setfl |-> 0]

(* the answers to the calls of init itself, with the same convention *)
InitOutcomes ==
    {InitOk,
     [InitOk EXCEPT !.data = -1],
     [InitOk EXCEPT !.iovecs = -1],
     [InitOk EXCEPT !.completions = -1],
     [InitOk EXCEPT !.iovecs = -1, !.completions = -1],
     [InitOk EXCEPT !.nq = -1],
     [InitOk EXCEPT !.npq = -1],
     [InitOk EXCEPT !.start = -1],
     [InitOk EXCEPT !.getfl = -1],
     [InitOk EXCEPT !.setfl = -1]}

(* a pointer as free() sees it: the block, or NULL when calloc failed *)
Ptr(x, r) == IF r = 0 THEN x ELSE "NULL"

(* err_free of fio_blkio_init *)
InitErrFree(io, l) ==
    [ret |-> 1,
     log |-> l \o <<Call("free", Ptr("completions", io.completions), 0),
                    Call("free", Ptr("iovecs", io.iovecs), 0),
                    Call("free", "data", 0)>>,
     data |-> "NULL", b |-> "NULL", fd |-> FALSE]

(* faulty variant: the error path jumps to err_free, past the destroy *)
InitErrDestroySkipped(io, l) == InitErrFree(io, l)

(* err_blkio_destroy of fio_blkio_init: falls through to err_free *)
InitErrDestroy(io, l) ==
    InitErrFree(io, Append(l, Call("blkio_destroy", "worker", 0)))

(* faulty variant: one standard queue is always asked for *)
NumQueuesAlwaysOne(o) == 1

(* options->hipri ? 0 : 1 and options->hipri ? 1 : 0 *)
NumQueues(o)     == IF o.hipri THEN 0 ELSE 1
NumPollQueues(o) == IF o.hipri THEN 1 ELSE 0

(* the queue init retrieves *)
QueueKind(o) == IF o.hipri THEN "blkio_get_poll_queue" ELSE "blkio_get_queue"

(* faulty variant: the completion fd is never enabled *)
UseCompletionFdNever(o) == FALSE

(* whether init enables the completion fd *)
UseCompletionFd(o) == o.wait_mode = "eventfd" \/ o.force_fd

(* When free() ends the process inside the connector the log stops there: *)
(* the pools, the state and the instance stay as they are.                *)
(* l1: the calls up to the end of the connector, c: what it returned.     *)
InitAfterConnect(o, io, l1, c) ==
    IF c.abort
    THEN [ret |-> -1, log |-> l1, data |-> "NULL", b |-> "NULL",
          fd |-> FALSE, ub |-> c.ub, abort |-> TRUE]
    ELSE IF c.ret # 0
    THEN InitErrFree(io, l1) @@ ReturnedWith(c.ub)
    ELSE
    LET l2 == Append(l1, Call("blkio_set_int:num-queues",
                              ToString(NumQueues(o)), io.nq)) IN
    IF io.nq # 0 THEN InitErrDestroy(io, l2) @@ ReturnedWith(c.ub)
    ELSE
    LET l3 == Append(l2, Call("blkio_set_int:num-poll-queues",
                              ToString(NumPollQueues(o)), io.npq)) IN
    IF io.npq # 0 THEN InitErrDestroy(io, l3) @@ ReturnedWith(c.ub)
    ELSE
    LET l4 == Append(l3, Call("blkio_start", "worker", io.start)) IN
    IF io.start # 0 THEN InitErrDestroy(io, l4) @@ ReturnedWith(c.ub)
    ELSE
    LET l5 == Append(l4, Call(QueueKind(o), "worker", 0)) IN
    IF UseCompletionFd(o)
    THEN LET l6 == l5 \o <<Call("blkioq_set_completion_fd_enabled", "q", 0),
                           Call("blkioq_get_completion_fd", "q", 0),
                           Call("fcntl:F_GETFL", "completion_fd", io.getfl)>>
         IN
         IF io.getfl < 0 THEN InitErrDestroy(io, l6) @@ ReturnedWith(c.ub)
         ELSE
         LET l7 == Append(l6, Call("fcntl:F_SETFL", "completion_fd",
                                   io.setfl)) IN
         IF io.setfl # 0 THEN InitErrDestroy(io, l7) @@ ReturnedWith(c.ub)
         ELSE [ret |-> 0, log |-> l7, data |-> "data", b |-> "worker",
               fd |-> TRUE] @@ ReturnedWith(c.ub)
    ELSE [ret |-> 0, log |-> l5, data |-> "data", b |-> "worker",
          fd |-> FALSE] @@ ReturnedWith(c.ub)

(* the connector, after the calls a3 *)
InitConnect(o, io, a3, c) == InitAfterConnect(o, io, a3 \o c.log, c)

InitRun(o, bo, io) ==
    LET a1 == <<Call("calloc", "data", io.data)>> IN
    IF io.data # 0
    THEN [ret |-> 1, log |-> a1, data |-> "NULL", b |-> "NULL",
          fd |-> FALSE] @@ NoUb
    ELSE
    LET a3 == a1 \o <<Call("calloc", "iovecs", io.iovecs),
                      Call("calloc", "completions", io.completions)>>
    IN
    IF io.iovecs # 0 \/ io.completions # 0 THEN InitErrFree(io, a3) @@ NoUb
    ELSE
    InitConnect(o, io, a3, CreateAndConnect(o, "worker", bo))

FioBlkioInit ==
    /\ phase = "setup_ok"
    /\ ub = "none"
    /\ \E bo \in ConnectOutcomes, io \in InitOutcomes :
         LET r == InitRun(opt, bo, io) IN
         /\ log' = r.log
         /\ res' = Replay(res, r.log)
         /\ td_data' = r.data
         /\ data_b' = r.b
         /\ last' = [op |-> "init", ret |-> r.ret]
         /\ phase' = IF r.abort THEN "aborted"
                     ELSE IF r.ret = 0 THEN "init_ok" ELSE "init_failed"
         /\ ub' = r.ub
    /\ UNCHANGED <<props, opt, file_size, memVars, ioVars>>

(***************************************************************************)
(* fio_blkio_post_init: registers td->orig_buffer, unless iomem_alloc      *)
(* provided a region that is still held.  mp is what blkio_map_mem_region  *)
(* returns.  td->orig_buffer is the buffer of the fio core, or still the   *)
(* address of the region an earlier iomem_alloc set it to: that region is  *)
(* then mapped again, released or not.                                     *)
(***************************************************************************)
WorkerLive == td_data = "data" /\ res.heap["data"] = "live"

(* the region post_init maps, as the call log names it *)
OrigBufferName(ob) == IF ob = 0 THEN "orig_buffer" ELSE ToString(ob)

(* the regions once blkio_map_mem_region(td->orig_buffer) succeeded *)
MapOrigBuffer(rs, ob) ==
    IF ob = 0 THEN rs ELSE [rs EXCEPT ![ob].st = "mapped"]

FioBlkioPostInit ==
    /\ phase = "init_ok"
    /\ WorkerLive
    /\ ub = "none"
    /\ \E mp \in {0, -1} :
         IF ~has_mem_region
         THEN /\ log' = <<Call("blkio_map_mem_region",
                               OrigBufferName(orig_buffer), mp)>>
              /\ ext_mapped' = (ext_mapped \/ (mp = 0 /\ orig_buffer = 0))
              /\ regions' = IF mp = 0 THEN MapOrigBuffer(regions, orig_buffer)
                            ELSE regions
              /\ last' = [op |-> "post_init", ret |-> IF mp = 0 THEN 0 ELSE 1]
         ELSE /\ log' = <<>>
              /\ ext_mapped' = ext_mapped
              /\ regions' = regions
              /\ last' = [op |-> "post_init", ret |-> 0]
    /\ UNCHANGED <<props, opt, phase, res, td_data, data_b, file_size,
                   has_mem_region, mem_region, orig_buffer, req_size,
                   mem_align, alloc_req, ioVars, ub>>

(***************************************************************************)
(* fio_blkio_cleanup.  td->io_ops_data is not cleared: after the first     *)
(* cleanup it dangles, and a further call reads data->b and the pool       *)
(* pointers from freed memory and frees data again.  What those reads      *)
(* yield is not defined: sb is the instance read (the allocator may have   *)
(* overwritten it: "garbage"), sp says what the pool pointers read as, and *)
(* any of the four calls can end the process: stop is that call, 0 when    *)
(* all of them return.                                                     *)
(***************************************************************************)
CleanupLog(b) ==
    <<Call("blkio_destroy", b, 0), Call("free", "completions", 0),
      Call("free", "iovecs", 0), Call("free", "data", 0)>>

StaleReads == {"intact", "NULL", "garbage"}

StalePtr(x, sp) == IF sp = "intact" THEN x ELSE sp

(* the calls of a cleanup on freed data, up to the one that does not return *)
StaleCleanupLog(sb, sp, stop) ==
    LET all == <<Call("blkio_destroy", sb, 0),
                 Call("free", StalePtr("completions", sp), 0),
                 Call("free", StalePtr("iovecs", sp), 0),
                 Call("free", "data", 0)>>
    IN  IF stop = 0 THEN all ELSE SubSeq(all, 1, stop)

(* those of them that returned *)
ReturnedCalls(l, stop) == IF stop = 0 THEN l ELSE SubSeq(l, 1, stop - 1)

FioBlkioCleanup ==
    /\ phase # "setup_failed"
    /\ ub = "none"
    /\ IF td_data = "NULL"
       THEN /\ log' = <<>>
            /\ last' = [op |-> "cleanup", ret |-> 0]
            /\ UNCHANGED <<res, data_b, ub, phase>>
       ELSE IF res.heap["data"] = "live"
       THEN /\ log' = CleanupLog(data_b)
            /\ last' = [op |-> "cleanup", ret |-> 0]
            /\ res' = Replay(res, log')
            /\ data_b' = "NULL"
            /\ UNCHANGED <<ub, phase>>
       ELSE \E sb \in {"NULL", "worker", "garbage"}, sp \in StaleReads,
               stop \in 0 .. 4 :
            /\ log' = StaleCleanupLog(sb, sp, stop)
            /\ last' = [op |-> "cleanup", ret |-> IF stop = 0 THEN 0 ELSE -1]
            /\ res' = Replay(res, ReturnedCalls(log', stop))
            /\ data_b' = "NULL"
            /\ ub' = "use_after_free"
            /\ phase' = IF stop = 0 THEN phase ELSE "aborted"
    /\ UNCHANGED <<props, opt, td_data, file_size, memVars, ioVars>>

(***************************************************************************)
(* Memory regions.  A region the backend hands out is allocated, then      *)
(* mapped, then (unmapped and) freed; nfree counts blkio_free_mem_region   *)
(* calls on it.                                                            *)
(***************************************************************************)
RegionIds == 1 .. MaxRegions
NoRegion  == [st |-> "none", nfree |-> 0]
NoRequest == [made |-> FALSE, size |-> 0, align |-> 0, len |-> 0]

FreshIds == {r \in RegionIds : regions[r].st = "none"}
NextId   == CHOOSE r \in FreshIds : \A q \in FreshIds : r <= q

(* align_up(x, y) in size_t arithmetic, for y # 0 *)
AlignUp(x, y) == ((((x + y - 1) % SizeMod) \div y) * y) % SizeMod

Unmap(rs, r) ==
    IF r \in RegionIds /\ rs[r].st = "mapped"
    THEN [rs EXCEPT ![r].st = "allocated"] ELSE rs

Free(rs, r) ==
    IF r \in RegionIds
    THEN [rs EXCEPT ![r].st = "freed", ![r].nfree = @ + 1] ELSE rs

(* faulty variant: the mapping failure returns without freeing the region *)
OutFreeSkipped(rs, r) == [regions |-> rs, log |-> <<>>]

(* out_free of fio_blkio_iomem_alloc: the mapping of region r failed *)
OutFree(rs, r) ==
    [regions |-> Free(rs, r),
     log     |-> <<Call("blkio_free_mem_region", ToString(r), 0)>>]

(* faulty variant: iomem_free leaves the flag set *)
FlagAfterFreeKept == TRUE

(* data->has_mem_region once fio_blkio_iomem_free has released the region *)
FlagAfterFree == FALSE

(***************************************************************************)
(* fio_blkio_iomem_alloc.  aq, al and mp are the results of the alignment  *)
(* query, of blkio_alloc_mem_region and of blkio_map_mem_region.  A        *)
(* reported alignment of 0 makes align_up divide by zero: the process      *)
(* traps, or the division yields some value dz.                            *)
(***************************************************************************)
FioBlkioIomemAlloc ==
    /\ phase = "init_ok"
    /\ WorkerLive
    /\ ub = "none"
    /\ FreshIds # {}
    /\ \E aq \in {0, -1}, al \in {0, -1}, mp \in {0, -1},
          dz \in (IF mem_align = 0 THEN {-1} \cup Sizes ELSE {0}) :
         LET size == IF mem_align = 0 THEN dz
                     ELSE AlignUp(req_size, mem_align)
             r    == NextId
             get  == Call("blkio_get_uint64:mem-region-alignment",
                          "worker", aq)
         IN
         IF aq # 0
         THEN /\ log' = <<get>>
              /\ last' = [op |-> "iomem_alloc", ret |-> 1]
              /\ UNCHANGED <<regions, mem_region, has_mem_region, alloc_req,
                             orig_buffer, ub>>
         ELSE IF size = -1
         THEN /\ log' = <<get>>
              /\ last' = [op |-> "iomem_alloc", ret |-> -1]
              /\ ub' = "division_by_zero"
              /\ UNCHANGED <<regions, mem_region, has_mem_region, alloc_req,
                             orig_buffer>>
         ELSE
         /\ ub' = IF mem_align = 0 THEN "division_by_zero" ELSE ub
         /\ alloc_req' = [made |-> TRUE, size |-> req_size,
                          align |-> mem_align, len |-> size]
         /\ IF al # 0
            THEN /\ log' = <<get, Call("blkio_alloc_mem_region", "NULL", al)>>
                 /\ last' = [op |-> "iomem_alloc", ret |-> 1]
                 /\ UNCHANGED <<regions, mem_region, has_mem_region,
                                orig_buffer>>
            ELSE IF mp # 0
            THEN /\ log' = <<get,
                             Call("blkio_alloc_mem_region", ToString(r), 0),
                             Call("blkio_map_mem_region", ToString(r), mp)>>
                          \o OutFree(regions, r).log
                 /\ regions' = OutFree(
                        [regions EXCEPT ![r].st = "allocated"], r).regions
                 /\ mem_region' = r
                 /\ has_mem_region' = has_mem_region
                 /\ orig_buffer' = orig_buffer
                 /\ last' = [op |-> "iomem_alloc", ret |-> 1]
            ELSE /\ log' = <<get,
                             Call("blkio_alloc_mem_region", ToString(r), 0),
                             Call("blkio_map_mem_region", ToString(r), 0)>>
                 /\ regions' = [regions EXCEPT ![r].st = "mapped"]
                 /\ mem_region' = r
                 /\ has_mem_region' = TRUE
                 /\ orig_buffer' = r
                 /\ last' = [op |-> "iomem_alloc", ret |-> 0]
    /\ UNCHANGED <<props, opt, phase, res, td_data, data_b, file_size, ext_mapped,
                   req_size, mem_align, ioVars>>

(***************************************************************************)
(* fio_blkio_iomem_free.  With td->io_ops_data dangling (after cleanup)    *)
(* the flag is read from freed memory: sf is what that read yields.        *)
(***************************************************************************)
FreeLog(r) ==
    <<Call("blkio_unmap_mem_region", ToString(r), 0),
      Call("blkio_free_mem_region", ToString(r), 0)>>

(* faulty variant: with no region held, the harness's buffer is released *)
NoRegionFreeLogExternal ==
    <<Call("blkio_unmap_mem_region", "orig_buffer", 0),
      Call("blkio_free_mem_region", "orig_buffer", 0)>>

(* the calls iomem_free makes when data->has_mem_region is false *)
NoRegionFreeLog == <<>>

FioBlkioIomemFree ==
    /\ phase # "setup_failed"
    /\ ub = "none"
    /\ last' = [op |-> "iomem_free", ret |-> 0]
    /\ IF td_data = "NULL"
       THEN /\ log' = <<>>
            /\ UNCHANGED <<regions, has_mem_region, ub>>
       ELSE IF res.heap["data"] = "live"
       THEN IF has_mem_region
            THEN /\ log' = FreeLog(mem_region)
                 /\ regions' = Free(Unmap(regions, mem_region), mem_region)
                 /\ has_mem_region' = FlagAfterFree
                 /\ ub' = IF regions[mem_region].st = "freed"
                          THEN "double_free" ELSE ub
            ELSE /\ log' = NoRegionFreeLog
                 /\ UNCHANGED <<regions, has_mem_region, ub>>
       ELSE \E sf \in BOOLEAN :
            /\ log' = IF sf THEN FreeLog(mem_region) ELSE <<>>
            /\ regions' = IF sf
                          THEN Free(Unmap(regions, mem_region), mem_region)
                          ELSE regions
            /\ has_mem_region' = FALSE
            /\ ub' = "use_after_free"
    /\ UNCHANGED <<props, opt, phase, res, td_data, data_b, file_size,
                   mem_region, ext_mapped, orig_buffer, req_size, mem_align,
                   alloc_req, ioVars>>

(***************************************************************************)
(* The queue of a started worker, before any request.                      *)
(***************************************************************************)
Tags  == 1 .. IoDepth
Slots == 0 .. (IoDepth - 1)

NoCompletion == [user_data |-> 0, ret |-> 0]
NoEvent      == [i |-> 0, tag |-> 0, error |-> 0]

(* The locals of fio_blkio_getevents and where it stands: idle (not        *)
(* called), doio (inside blkioq_do_io), read (inside read() on the         *)
(* completion fd), ret (returned ret), deliver (the harness translates the *)
(* events), failed.  site, off, minc, maxc and tmo describe the            *)
(* blkioq_do_io call being made; ncalls counts these calls (2: two or      *)
(* more), wrote are the slots they wrote, clobber says that one of them    *)
(* wrote a slot again, fail how the backend failed.                        *)
GeIdle == [pc |-> "idle", min |-> 0, max |-> 0, t |-> "NULL", n |-> 0,
           ret |-> 0, site |-> "none", off |-> 0, minc |-> 0, maxc |-> 0,
           tmo |-> "NULL", ncalls |-> 0, did_read |-> FALSE, wrote |-> {},
           clobber |-> FALSE, fail |-> "none"]

(* char pointers of fio_blkio_set_props_from_str, and its state before it *)
(* is called                                                               *)
NullPtr     == [null |-> TRUE, s |-> <<>>, base |-> FALSE]
BasePtr(t)  == [null |-> FALSE, s |-> t, base |-> TRUE]
InnerPtr(t) == [null |-> FALSE, s |-> t, base |-> FALSE]

NoProps == [pc |-> "none", str |-> NullPtr, caller |-> NullPtr, ret |-> 0,
            calls |-> <<>>, dup |-> 0, rej |-> 0, freed |-> "none"]

IoInit ==
    /\ iou = [g \in Tags |-> "free"]
    /\ enq = {}
    /\ dev = {}
    /\ cq = <<>>
    /\ efd = FALSE
    /\ completions = [i \in Slots |-> NoCompletion]
    /\ ge = GeIdle
    /\ ev = NoEvent

MemInit ==
    /\ has_mem_region = FALSE
    /\ mem_region = 0
    /\ regions = [r \in RegionIds |-> NoRegion]
    /\ ext_mapped = FALSE
    /\ orig_buffer = 0
    /\ alloc_req = NoRequest

(***************************************************************************)
(* The life cycle: the harness calls setup, then init, then the memory     *)
(* callbacks and the teardown callbacks in any order.                      *)
(***************************************************************************)
LifeOptions == {o \in Options : ~o.vectored /\ ~o.wz}

Init ==
    /\ opt \in LifeOptions
    /\ phase = "new"
    /\ last = [op |-> "none", ret |-> 0]
    /\ log = <<>>
    /\ res = NoRes
    /\ td_data = "NULL"
    /\ data_b = "NULL"
    /\ file_size = "unset"
    /\ ub = "none"
    /\ req_size = 5
    /\ mem_align = 4
    /\ MemInit
    /\ IoInit
    /\ props = NoProps

Next ==
    \/ FioBlkioSetup
    \/ FioBlkioInit
    \/ FioBlkioPostInit
    \/ FioBlkioIomemAlloc
    \/ FioBlkioIomemFree
    \/ FioBlkioCleanup

Spec == Init /\ [][Next]_vars

(***************************************************************************)
(* fio_blkio_set_props_from_str on the characters of its argument.  A      *)
(* string is a sequence of characters; a char pointer is NULL or points at *)
(* the characters from it to the terminating NUL, and base says whether it *)
(* is still the address strdup returned (NullPtr, BasePtr, InnerPtr).      *)
(***************************************************************************)
MaxStrLen == 4
MaxRej    == 2

Chars == {"a", "b", "=", " ", ":"}

RECURSIVE StringsUpTo(_)
StringsUpTo(n) ==
    IF n = 0 THEN {<<>>}
    ELSE LET shorter == StringsUpTo(n - 1)
         IN  shorter \cup {Append(t, c) : t \in shorter, c \in Chars}

(* strchr: the index of the first c in t, 0 when there is none *)
StrChr(t, c) ==
    IF \E i \in 1 .. Len(t) : t[i] = c
    THEN CHOOSE i \in 1 .. Len(t) :
             t[i] = c /\ \A j \in 1 .. (i - 1) : t[j] # c
    ELSE 0

(* get_next_str(&ptr) of the harness: NULL at the end of the string;       *)
(* otherwise the characters up to the next ':' (colons in front skipped),  *)
(* and ptr moved behind that ':' or set to NULL when there was none.       *)
RECURSIVE SkipColons(_)
SkipColons(t) ==
    IF t # <<>> /\ Head(t) = ":" THEN SkipColons(Tail(t)) ELSE t

GetNextStr(ptr) ==
    IF ptr.null \/ ptr.s = <<>>
    THEN [found |-> FALSE, name |-> <<>>, ptr |-> ptr]
    ELSE LET start == SkipColons(ptr.s)
             p     == StrChr(start, ":")
         IN  IF p = 0
             THEN [found |-> TRUE, name |-> start, ptr |-> NullPtr]
             ELSE [found |-> TRUE, name |-> SubSeq(start, 1, p - 1),
                   ptr |-> InnerPtr(SubSeq(start, p + 1, Len(start)))]

(* strip_blank_front and strip_blank_end of the harness *)
RECURSIVE StripBlankFront(_)
StripBlankFront(t) ==
    IF t # <<>> /\ Head(t) = " " THEN StripBlankFront(Tail(t)) ELSE t

RECURSIVE StripBlankEnd(_)
StripBlankEnd(t) ==
    IF t # <<>> /\ t[Len(t)] = " "
    THEN StripBlankEnd(SubSeq(t, 1, Len(t) - 1)) ELSE t

StripBlank(t) == StripBlankEnd(StripBlankFront(t))

SetStr(name, value, r) == [name |-> name, value |-> value, ret |-> r]

(* the while loop: ptr is new_str, k counts the blkio_set_str calls made,  *)
(* rej is the call the backend rejects (0: none)                           *)
RECURSIVE SetPropsLoop(_, _, _)
SetPropsLoop(ptr, k, rej) ==
    LET nx == GetNextStr(ptr) IN
    IF ~nx.found THEN [ret |-> 0, calls |-> <<>>, ptr |-> nx.ptr]
    ELSE LET eq    == StrChr(nx.name, "=")
             name  == StripBlank(SubSeq(nx.name, 1, eq - 1))
             value == StripBlank(SubSeq(nx.name, eq + 1, Len(nx.name)))
         IN  IF eq = 0 THEN [ret |-> 1, calls |-> <<>>, ptr |-> nx.ptr]
             ELSE IF name = <<>>
             THEN [ret |-> 1, calls |-> <<>>, ptr |-> nx.ptr]
             ELSE IF rej = k + 1
             THEN [ret |-> 1, calls |-> <<SetStr(name, value, -1)>>,
                   ptr |-> nx.ptr]
             ELSE LET rest == SetPropsLoop(nx.ptr, k + 1, rej)
                  IN  [ret |-> rest.ret,
                       calls |-> <<SetStr(name, value, 0)>> \o rest.calls,
                       ptr |-> rest.ptr]

(* free(new_str) after the loop: the address strdup returned, NULL (the    *)
(* copy is never freed), or an address inside the copy                     *)
FreedPtr(ptr) ==
    IF ptr.null THEN "NULL" ELSE IF ptr.base THEN "base" ELSE "inside"

(* pc: start (not called), done (returned ret), aborted (free() of an      *)
(* address inside the copy ended the process).  Freeing such an address is *)
(* undefined: the call may also return.                                    *)
FioBlkioSetPropsFromStr ==
    /\ props.pc = "start"
    /\ \E dup \in {0, -1}, rej \in 0 .. MaxRej, aborts \in BOOLEAN :
         LET r == SetPropsLoop(BasePtr(props.str.s), 0, rej)
             f == FreedPtr(r.ptr)
         IN
         IF props.str.null
         THEN /\ dup = 0 /\ rej = 0 /\ ~aborts
              /\ props' = [props EXCEPT !.pc = "done", !.ret = 0]
              /\ ub' = ub
         ELSE IF dup # 0
         THEN /\ rej = 0 /\ ~aborts
              /\ props' = [props EXCEPT !.pc = "done", !.ret = 1, !.dup = dup]
              /\ ub' = ub
         ELSE /\ rej <= Len(r.calls)
              /\ (rej # 0 => r.calls[rej].ret # 0)
              /\ (aborts => f = "inside")
              /\ props' = [props EXCEPT
                             !.pc = IF aborts THEN "aborted" ELSE "done",
                             !.ret = r.ret, !.calls = r.calls, !.rej = rej,
                             !.freed = f]
              /\ ub' = IF f = "inside" THEN "invalid_free" ELSE ub
    /\ UNCHANGED <<opt, lifeVars, memVars, ioVars>>

InitProps ==
    /\ opt \in {o \in LifeOptions :
                  /\ o.driver = "drv" /\ ~o.hipri /\ ~o.force_fd
                  /\ o.wait_mode = "block"
                  /\ o.pre_connect_props = NullStr
                  /\ o.pre_start_props = NullStr}
    /\ phase = "new"
    /\ last = [op |-> "none", ret |-> 0]
    /\ log = <<>>
    /\ res = NoRes
    /\ td_data = "NULL"
    /\ data_b = "NULL"
    /\ file_size = "unset"
    /\ ub = "none"
    /\ req_size = 5
    /\ mem_align = 4
    /\ MemInit
    /\ IoInit
    /\ \E t \in {NullPtr} \cup {BasePtr(u) : u \in StringsUpTo(MaxStrLen)} :
         props = [NoProps EXCEPT !.pc = "start", !.str = t, !.caller = t]

NextProps == FioBlkioSetPropsFromStr

SpecProps == InitProps /\ [][NextProps]_vars

(***************************************************************************)
(* A worker whose setup and init succeeded, every call answering 0.        *)
(***************************************************************************)
StartedWorker ==
    /\ phase = "init_ok"
    /\ last = [op |-> "init", ret |-> 0]
    /\ log = InitRun(opt, ConnectOk(0), InitOk).log
    /\ res = Replay(Replay(NoRes, SetupRun(opt, ConnectOk(0), 0).log), log)
    /\ td_data = "data"
    /\ data_b = "worker"
    /\ file_size = "capacity"
    /\ ub = "none"

(* the options a started worker can have *)
RunOptions ==
    {o \in Options : /\ o.driver = "drv"
                     /\ ~SetupRejects(o)
                     /\ o.pre_connect_props = NullStr
                     /\ o.pre_start_props = NullStr}

(***************************************************************************)
(* iomem_alloc and iomem_free on a started worker, for every requested     *)
(* size and every reported alignment of the size type.                     *)
(***************************************************************************)
InitAlign ==
    /\ opt \in {o \in RunOptions : /\ ~o.hipri /\ ~o.force_fd /\ ~o.vectored
                                   /\ ~o.wz /\ o.wait_mode = "block"}
    /\ StartedWorker
    /\ req_size \in Sizes
    /\ mem_align \in Sizes
    /\ MemInit
    /\ IoInit
    /\ props = NoProps

NextAlign ==
    \/ FioBlkioIomemAlloc
    \/ FioBlkioIomemFree

SpecAlign == InitAlign /\ [][NextAlign]_vars

(***************************************************************************)
(* fio_blkio_queue.  The harness hands over a free io_u; its address is    *)
(* the tag (user_data) of the request.                                     *)
(***************************************************************************)
FIO_Q_COMPLETED == 0
FIO_Q_QUEUED    == 1

DDirs == {"read", "write", "trim", "sync", "datasync", "wait"}

Busy == {g \in Tags : iou[g] = "busy"}

(* the io_u's the harness hands over: io_u g has the tag g and its own     *)
(* buffer; offset and length are the harness's choice                      *)
Offsets == {0, 8}
BufLens == {4, 8}

IoU(g, ddir, off, len) ==
    [tag |-> g, ddir |-> ddir, offset |-> off, xfer_buf |-> <<"buf", g>>,
     xfer_buflen |-> len, index |-> g - 1]

(* faulty variants: a ddir the switch does not name is flushed; a trim is  *)
(* always a discard                                                        *)
QueueFnDefaultFlush(o, ddir) ==
    IF ddir = "read"
    THEN (IF o.vectored THEN "blkioq_readv" ELSE "blkioq_read")
    ELSE IF ddir = "write"
    THEN (IF o.vectored THEN "blkioq_writev" ELSE "blkioq_write")
    ELSE IF ddir = "trim"
    THEN (IF o.wz THEN "blkioq_write_zeroes" ELSE "blkioq_discard")
    ELSE "blkioq_flush"

QueueFnTrimDiscards(o, ddir) ==
    IF ddir = "read"
    THEN (IF o.vectored THEN "blkioq_readv" ELSE "blkioq_read")
    ELSE IF ddir = "write"
    THEN (IF o.vectored THEN "blkioq_writev" ELSE "blkioq_write")
    ELSE IF ddir = "trim"
    THEN "blkioq_discard"
    ELSE IF ddir \in {"sync", "datasync"}
    THEN "blkioq_flush"
    ELSE "none"

(* the libblkio entry point the switch on io_u->ddir calls, if any *)
QueueFn(o, ddir) ==
    IF ddir = "read"
    THEN (IF o.vectored THEN "blkioq_readv" ELSE "blkioq_read")
    ELSE IF ddir = "write"
    THEN (IF o.vectored THEN "blkioq_writev" ELSE "blkioq_write")
    ELSE IF ddir = "trim"
    THEN (IF o.wz THEN "blkioq_write_zeroes" ELSE "blkioq_discard")
    ELSE IF ddir \in {"sync", "datasync"}
    THEN "blkioq_flush"
    ELSE "none"

(* the arguments of that call: the request's offset, its buffer (as a     *)
(* one-element iovec in data->iovecs[io_u->index], or as address and       *)
(* length), the io_u as user_data, flags 0                                 *)
QueueArgs(fn, u) ==
    IF fn \in {"blkioq_readv", "blkioq_writev"}
    THEN [start |-> u.offset,
          iovec |-> <<[iov_base |-> u.xfer_buf, iov_len |-> u.xfer_buflen]>>,
          iovcnt |-> 1, slot |-> u.index, user_data |-> u.tag, flags |-> 0]
    ELSE IF fn \in {"blkioq_read", "blkioq_write"}
    THEN [start |-> u.offset, buf |-> u.xfer_buf, len |-> u.xfer_buflen,
          user_data |-> u.tag, flags |-> 0]
    ELSE IF fn \in {"blkioq_write_zeroes", "blkioq_discard"}
    THEN [start |-> u.offset, len |-> u.xfer_buflen,
          user_data |-> u.tag, flags |-> 0]
    ELSE [user_data |-> u.tag, flags |-> 0]

FioBlkioQueue ==
    /\ ge.pc = "idle"
    /\ ub = "none"
    /\ \E g \in Tags, ddir \in DDirs, off \in Offsets, len \in BufLens :
         LET u  == IoU(g, ddir, off, len)
             fn == QueueFn(opt, ddir)
         IN
         /\ iou[g] = "free"
         /\ IF fn # "none"
            THEN /\ log' = <<Call(fn, QueueArgs(fn, u), 0)>>
                 /\ enq' = enq \cup {g}
                 /\ iou' = [iou EXCEPT ![g] = "busy"]
                 /\ last' = [op |-> "queue", ret |-> FIO_Q_QUEUED,
                             io_u |-> u]
                 /\ ev' = NoEvent
            ELSE /\ log' = <<>>
                 /\ ev' = [NoEvent EXCEPT !.tag = g, !.error = ENOTSUP]
                 /\ last' = [op |-> "queue", ret |-> FIO_Q_COMPLETED,
                             io_u |-> u]
                 /\ UNCHANGED <<enq, iou>>
    /\ UNCHANGED <<props, opt, phase, res, td_data, data_b, file_size, memVars,
                   dev, cq, efd, completions, ge, ub>>

(***************************************************************************)
(* The device completes a request it was handed: a completion record       *)
(* joins the queue and, when the completion fd is enabled, a token is      *)
(* added to it.                                                            *)
(***************************************************************************)
CompletionRets == {0, -5}

DeviceComplete ==
    /\ ub = "none"
    /\ \E g \in dev, r \in CompletionRets :
         /\ dev' = dev \ {g}
         /\ cq' = Append(cq, [user_data |-> g, ret |-> r])
         /\ efd' = (efd \/ UseCompletionFd(opt))
    /\ UNCHANGED <<props, opt, lifeVars, memVars, iou, enq, completions, ge, ev, ub>>

(***************************************************************************)
(* blkioq_do_io(q, completions + off, minc, maxc, tmo), as the engine      *)
(* calls it.  The call hands the enqueued requests to the device; it       *)
(* returns once minc completions are there, with as many as there are up   *)
(* to maxc, written from slot off on; or it fails.                         *)
(***************************************************************************)
DoIoCall(g, site, off, minc, maxc, tmo) ==
    [g EXCEPT !.pc = "doio", !.site = site, !.off = off, !.minc = minc,
              !.maxc = maxc, !.tmo = tmo,
              !.ncalls = Min2(g.ncalls + 1, 2)]

DrainInto(comp, q, off, k) ==
    [i \in Slots |-> IF off <= i /\ i < off + k THEN q[i - off + 1]
                     ELSE comp[i]]

(* faulty variant: the caller's timeout is passed on *)
DoIoTimeoutGiven(t) == t

(* the timeout fio_blkio_getevents passes on, given its own t *)
DoIoTimeout(t) == "NULL"

(* faulty variants: every drain writes from slot 0; every drain may write  *)
(* max records                                                             *)
DrainOffsetZero(n)    == 0
DrainMaxWhole(max, n) == max

(* the slot the next drain writes from, and how many it may write *)
DrainOffset(n)   == n
DrainMax(max, n) == max - n

(* faulty variant: the loops drain once before they test (do ... while) *)
NeedMoreDoWhile(n, min) == n = 0 \/ n < min

(* faulty variant: the loops go on until more than min are collected *)
NeedMoreOrEqual(n, min) == n <= min

(* the test of the two retry loops *)
NeedMore(n, min) == n < min

(* blkioq_do_io hands what is enqueued to the device *)
Submit ==
    /\ enq' = {}
    /\ dev' = dev \cup enq

(***************************************************************************)
(* fio_blkio_getevents, from its call to its first blkioq_do_io call (or   *)
(* to its return, when the loop mode has nothing to wait for).             *)
(***************************************************************************)
FioBlkioGetevents ==
    /\ ge.pc = "idle"
    /\ ub = "none"
    /\ \E max \in 0 .. IoDepth, t \in {"NULL", "ts"} : \E min \in 0 .. max :
         LET g == [GeIdle EXCEPT !.min = min, !.max = max, !.t = t] IN
         IF opt.wait_mode = "block"
         THEN /\ ge' = DoIoCall(g, "block", 0, min, max, DoIoTimeout(t))
              /\ Submit
         ELSE IF opt.wait_mode = "eventfd"
         THEN /\ ge' = DoIoCall(g, "first", 0, 0, max, "NULL")
              /\ Submit
         ELSE IF NeedMore(0, min)
         THEN /\ ge' = DoIoCall(g, "loop", DrainOffset(0), 0,
                                DrainMax(max, 0), "NULL")
              /\ Submit
         ELSE /\ ge' = [g EXCEPT !.pc = "ret", !.ret = 0]
              /\ UNCHANGED <<enq, dev>>
    /\ last' = [op |-> "getevents", ret |-> 0]
    /\ log' = <<>>
    /\ ev' = NoEvent
    /\ UNCHANGED <<props, opt, phase, res, td_data, data_b, file_size, memVars, iou,
                   cq, efd, completions, ub>>

(***************************************************************************)
(* blkioq_do_io returns k completions, and fio_blkio_getevents goes on to  *)
(* its next blocking point or to its return.                               *)
(***************************************************************************)
AfterDrain(g, k) ==
    LET n == IF g.site = "block" THEN k ELSE g.n + k
        h == [g EXCEPT !.n = n]
    IN
    IF g.site = "block" THEN [h EXCEPT !.pc = "ret", !.ret = n]
    ELSE IF ~NeedMore(n, g.min) THEN [h EXCEPT !.pc = "ret", !.ret = n]
    ELSE IF g.site = "loop"
    THEN DoIoCall(h, "loop", DrainOffset(n), 0, DrainMax(g.max, n), "NULL")
    ELSE [h EXCEPT !.pc = "read"]

FioBlkioDoIoReturn ==
    /\ ge.pc = "doio"
    /\ ub = "none"
    /\ Len(cq) >= ge.minc
    /\ LET k   == Min2(ge.maxc, Len(cq))
           new == ge.off .. (ge.off + k - 1)
           g   == [ge EXCEPT !.wrote = @ \cup new,
                             !.clobber = @ \/ (ge.wrote \cap new # {})]
       IN
       /\ completions' = DrainInto(completions, cq, ge.off, k)
       /\ cq' = SubSeq(cq, k + 1, Len(cq))
       /\ ge' = AfterDrain(g, k)
    /\ Submit
    /\ UNCHANGED <<props, opt, lifeVars, memVars, iou, efd, ev, ub>>

(* faulty variant: a failure returns what was collected so far *)
ErrorReturnCount(n) == n

(* what getevents returns when a call of its fails, n being collected *)
ErrorReturn(n) == -1

(* blkioq_do_io fails: with an error, or, given a timeout, by timing out *)
FioBlkioDoIoFail ==
    /\ ge.pc = "doio"
    /\ ub = "none"
    /\ \E f \in {"error"} \cup (IF ge.tmo # "NULL" /\ Len(cq) < ge.minc
                                 THEN {"timeout"} ELSE {}) :
         ge' = [ge EXCEPT !.pc = "ret", !.ret = ErrorReturn(ge.n), !.fail = f]
    /\ UNCHANGED <<props, opt, lifeVars, memVars, iou, enq, dev, cq, efd,
                   completions, ev, ub>>

(***************************************************************************)
(* read() on the completion fd, which init made blocking: it returns the   *)
(* eight bytes of the counter, and resets it, once the counter is not 0;   *)
(* the engine then drains again.  Or it returns something else (it was     *)
(* interrupted), and getevents returns -1.                                 *)
(***************************************************************************)
FioBlkioReadFd ==
    /\ ge.pc = "read"
    /\ ub = "none"
    /\ efd
    /\ efd' = FALSE
    /\ ge' = DoIoCall([ge EXCEPT !.did_read = TRUE], "retry",
                      DrainOffset(ge.n), 0, DrainMax(ge.max, ge.n), "NULL")
    /\ Submit
    /\ UNCHANGED <<props, opt, lifeVars, memVars, iou, cq, completions, ev, ub>>

FioBlkioReadFdFail ==
    /\ ge.pc = "read"
    /\ ub = "none"
    /\ ge' = [ge EXCEPT !.pc = "ret", !.ret = ErrorReturn(ge.n),
                        !.fail = "read", !.did_read = TRUE]
    /\ UNCHANGED <<props, opt, lifeVars, memVars, iou, enq, dev, cq, efd,
                   completions, ev, ub>>

(***************************************************************************)
(* The harness takes the return value: an error ends the worker; else it   *)
(* translates the events 0 .. ret-1 with fio_blkio_event, in order, and    *)
(* gets each io_u back.                                                    *)
(***************************************************************************)
GeteventsReturn ==
    /\ ge.pc = "ret"
    /\ ub = "none"
    /\ IF ge.ret < 0 THEN ge' = [ge EXCEPT !.pc = "failed"]
       ELSE IF ge.ret = 0 THEN ge' = GeIdle
       ELSE ge' = [ge EXCEPT !.pc = "deliver"]
    /\ last' = [op |-> "getevents", ret |-> ge.ret]
    /\ UNCHANGED <<props, opt, phase, log, res, td_data, data_b, file_size, memVars,
                   iou, enq, dev, cq, efd, completions, ev, ub>>

(* faulty variant: the result is stored without the change of sign *)
EventOfNotNegated(event) ==
    [tag   |-> completions[event].user_data,
     error |-> completions[event].ret]

(* fio_blkio_event(td, event): the io_u and the error it leaves in it *)
EventOf(event) ==
    [tag   |-> completions[event].user_data,
     error |-> 0 - completions[event].ret]

FioBlkioEvent ==
    /\ ge.pc = "deliver"
    /\ ub = "none"
    /\ ev.i < ge.ret
    /\ LET e == EventOf(ev.i) IN
       IF e.tag \notin Tags
       THEN /\ ub' = "null_dereference"
            /\ UNCHANGED <<iou, ev, ge, last>>
       ELSE /\ iou' = [iou EXCEPT ![e.tag] = "free"]
            /\ ev' = [i |-> IF ev.i + 1 = ge.ret THEN 0 ELSE ev.i + 1,
                      tag |-> e.tag, error |-> e.error]
            /\ ge' = IF ev.i + 1 = ge.ret THEN GeIdle ELSE ge
            /\ last' = [op |-> "event", ret |-> e.tag]
            /\ ub' = ub
    /\ UNCHANGED <<props, opt, phase, log, res, td_data, data_b, file_size, memVars,
                   enq, dev, cq, efd, completions>>

InitIO ==
    /\ opt \in {o \in RunOptions : ~o.hipri /\ ~o.force_fd}
    /\ StartedWorker
    /\ req_size = 5
    /\ mem_align = 4
    /\ MemInit
    /\ IoInit
    /\ props = NoProps

NextIO ==
    \/ FioBlkioQueue
    \/ DeviceComplete
    \/ FioBlkioGetevents
    \/ FioBlkioDoIoReturn
    \/ FioBlkioDoIoFail
    \/ FioBlkioReadFd
    \/ FioBlkioReadFdFail
    \/ GeteventsReturn
    \/ FioBlkioEvent

SpecIO == InitIO /\ [][NextIO]_vars

(***************************************************************************)
(* The eventfd wait mode with a device that completes every request it was *)
(* handed, a non-blocking blkioq_do_io that returns, and a read() that     *)
(* returns once the completion fd is readable.  The failures of these      *)
(* calls stay possible.                                                    *)
(***************************************************************************)
InitEventfd ==
    /\ InitIO
    /\ opt.wait_mode = "eventfd"
    /\ ~opt.vectored /\ ~opt.wz

SpecEventfd ==
    /\ InitEventfd
    /\ [][NextIO]_vars
    /\ WF_vars(DeviceComplete)
    /\ WF_vars(FioBlkioDoIoReturn)
    /\ WF_vars(FioBlkioReadFd)

(***************************************************************************)
(* The life of one worker as the harness runs it: after init either        *)
(* iomem_alloc and then post_init, or post_init alone (the harness         *)
(* allocated the buffer); then requests are queued and reaped; then        *)
(* iomem_free, then cleanup.  A failed iomem_alloc or post_init leads to   *)
(* iomem_free and cleanup at once.                                         *)
(***************************************************************************)
Running ==
    /\ \/ last.op = "post_init" /\ last.ret = 0
       \/ last.op \in {"queue", "getevents", "event"}

Stopping ==
    \/ Running /\ ge.pc \in {"idle", "failed"}
    \/ last.op \in {"iomem_alloc", "post_init"} /\ last.ret # 0

LifeIomemAlloc == last.op = "init" /\ FioBlkioIomemAlloc

LifePostInit ==
    /\ last.op = "init" \/ (last.op = "iomem_alloc" /\ last.ret = 0)
    /\ FioBlkioPostInit

LifeIO ==
    /\ Running
    /\ \/ FioBlkioQueue
       \/ DeviceComplete
       \/ FioBlkioGetevents
       \/ FioBlkioDoIoReturn
       \/ FioBlkioDoIoFail
       \/ FioBlkioReadFd
       \/ FioBlkioReadFdFail
       \/ GeteventsReturn
       \/ FioBlkioEvent

LifeIomemFree == Stopping /\ FioBlkioIomemFree

(* faulty variant: the harness calls cleanup without iomem_free before it *)
LifeCleanupUnfreed == Stopping /\ FioBlkioCleanup

LifeCleanup == last.op = "iomem_free" /\ FioBlkioCleanup

InitLife ==
    /\ opt \in {o \in RunOptions : /\ ~o.hipri /\ ~o.force_fd
                                   /\ ~o.vectored /\ ~o.wz}
    /\ StartedWorker
    /\ req_size = 5
    /\ mem_align = 4
    /\ MemInit
    /\ IoInit
    /\ props = NoProps

NextLife ==
    \/ LifeIomemAlloc
    \/ LifePostInit
    \/ LifeIO
    \/ LifeIomemFree
    \/ LifeCleanup

SpecLife == InitLife /\ [][NextLife]_vars

(***************************************************************************)
(* Helpers of the properties: reading a call log.                          *)
(***************************************************************************)
Made(l, fn) == {i \in 1 .. Len(l) : l[i].fn = fn}

(* the instances successfully created, and those destroyed, in l *)
CreatedIn(l)   == {i \in Made(l, "blkio_create") : l[i].ret = 0}
DestroyedIn(l) == {i \in Made(l, "blkio_destroy") : l[i].arg \in Insts}

(* the resources l acquires, and those it releases, in order *)
RECURSIVE Acquired(_)
Acquired(l) ==
    IF l = <<>> THEN <<>>
    ELSE LET c == Head(l) IN
         (IF c.fn = "calloc" /\ c.ret = 0 THEN <<c.arg>>
          ELSE IF c.fn = "blkio_create" /\ c.ret = 0 THEN <<c.arg>>
          ELSE <<>>) \o Acquired(Tail(l))

RECURSIVE Released(_)
Released(l) ==
    IF l = <<>> THEN <<>>
    ELSE LET c == Head(l) IN
         (IF c.fn = "free" /\ c.arg \in Objs THEN <<c.arg>>
          ELSE IF c.fn = "blkio_destroy" /\ c.arg \in Insts THEN <<c.arg>>
          ELSE <<>>) \o Released(Tail(l))

Reverse(q) == [i \in 1 .. Len(q) |-> q[Len(q) + 1 - i]]

(* an instance that is not live, and was destroyed once if it ever was *)
Gone(i) ==
    \/ res.blk[i] = "none" /\ res.ndestroy[i] = 0
    \/ res.blk[i] = "destroyed" /\ res.ndestroy[i] = 1

(* a heap block that is not live, and was freed once if it ever was *)
Released1(x) ==
    \/ res.heap[x] = "none" /\ res.nfree[x] = 0
    \/ res.heap[x] = "freed" /\ res.nfree[x] = 1

(***************************************************************************)
(* C5.  Setup fails without any call into the backend (so without          *)
(* blkio_create), and leaves the file size unset, whenever the driver is   *)
(* unset, or hipri comes with the eventfd wait mode, or hipri comes with   *)
(* the forced completion eventfd.                                          *)
(***************************************************************************)
C5_BadConfig ==
    \/ opt.driver = "NULL"
    \/ opt.hipri /\ opt.wait_mode = "eventfd"
    \/ opt.hipri /\ opt.force_fd

C5_SetupFailsBeforeCreate ==
    (C5_BadConfig /\ phase # "new") =>
        /\ phase = "setup_failed"
        /\ res.blk["sizing"] = "none"
        /\ file_size = "unset"
        /\ last.op = "setup" => (last.ret = 1 /\ Made(log, "blkio_create") = {})

C5_Witness ==
    /\ phase = "setup_failed"
    /\ last.op = "setup"
    /\ opt.driver = "drv"
    /\ opt.hipri /\ opt.force_fd /\ opt.wait_mode = "loop"

(***************************************************************************)
(* C6.  An instance the connector creates is destroyed exactly once: by    *)
(* the connector itself when a later step of it fails (the caller, setup   *)
(* or init, then makes no further destroy), and by setup on both paths of  *)
(* the sizing pass; no instance is live once setup is over.  A setup or an *)
(* init that free() ended inside the connector is over without having      *)
(* destroyed the instance it created.                                      *)
(***************************************************************************)
C6_CreatedDestroyedOnce ==
    /\ phase # "new" => Gone("sizing")
    /\ (last.op = "init" /\ last.ret # 0) => Gone("worker")
    /\ last.op = "setup" =>
           Cardinality(DestroyedIn(log)) = Cardinality(CreatedIn(log))
    /\ (last.op = "init" /\ last.ret # 0) =>
           Cardinality(DestroyedIn(log)) = Cardinality(CreatedIn(log))

(***************************************************************************)
(* C7.  A failed init leaves nothing behind: what it acquired (the         *)
(* per-thread state, the two pools, the instance) it releases exactly      *)
(* once, in the reverse order, it leaves td->io_ops_data unset, and a      *)
(* cleanup that follows makes no call.  An init that fails in the          *)
(* connector's property step and is ended there by free() has released     *)
(* none of them.                                                           *)
(***************************************************************************)
C7_FailedInitUnwinds ==
    (phase = "init_failed" \/ (last.op = "init" /\ last.ret # 0)) =>
        /\ td_data = "NULL"
        /\ \A x \in Objs : Released1(x)
        /\ Gone("worker")
        /\ last.op = "init" => Released(log) = Reverse(Acquired(log))
        /\ last.op = "cleanup" => log = <<>>

(***************************************************************************)
(* C8.  As claimed: teardown never destroys the instance twice, never      *)
(* frees a pool or the per-thread state twice and never touches freed      *)
(* state, however often cleanup and iomem_free are invoked.                *)
(***************************************************************************)
C8_TeardownIdempotent ==
    /\ ub # "use_after_free"
    /\ \A x \in Objs : res.nfree[x] <= 1
    /\ res.ndestroy["worker"] <= 1

(***************************************************************************)
(* C8, amended.  Teardown is safe while td->io_ops_data is unset or the    *)
(* per-thread state is live: cleanup and iomem_free on an unset pointer    *)
(* make no call and change nothing; an iomem_free that follows an          *)
(* iomem_free makes no call; the first cleanup after a successful init     *)
(* destroys the instance once and frees the pools and the state once, and  *)
(* leaves td->io_ops_data set.  Only a call through that stale pointer     *)
(* releases anything a second time.                                        *)
(***************************************************************************)
C8_State ==
    /\ ub # "use_after_free" =>
           /\ \A x \in Objs : res.nfree[x] <= 1
           /\ res.ndestroy["worker"] <= 1
    /\ (last.op = "cleanup" /\ phase = "init_ok" /\ ub = "none") =>
           /\ td_data = "data"
           /\ data_b = "NULL"
           /\ res.blk["worker"] = "destroyed" /\ res.ndestroy["worker"] = 1
           /\ \A x \in Objs : res.heap[x] = "freed" /\ res.nfree[x] = 1

C8_Step ==
    /\ (td_data = "NULL" /\ last'.op \in {"cleanup", "iomem_free"}) =>
           /\ log' = <<>>
           /\ res' = res /\ regions' = regions /\ td_data' = "NULL"
    /\ (WorkerLive /\ last.op = "iomem_free" /\ last'.op = "iomem_free") =>
           /\ log' = <<>>
           /\ regions' = regions /\ ub' = "none"

C8_TeardownSafeWhileLive == []C8_State /\ [][C8_Step]_vars

C8_Witness ==
    /\ last.op = "cleanup" /\ phase = "init_ok" /\ ub = "none"
    /\ res.heap["data"] = "freed"
    /\ \E r \in RegionIds : regions[r].st = "freed" /\ regions[r].nfree = 1

(***************************************************************************)
(* C10.  As claimed: on a started device, whatever the sequence of         *)
(* iomem_alloc and iomem_free calls, has_mem_region is true exactly when   *)
(* a region the engine allocated is allocated and mapped.                  *)
(***************************************************************************)
C10_FlagIffRegionMapped ==
    (phase = "init_ok" /\ WorkerLive /\ ub = "none") =>
        (has_mem_region <=> \E r \in RegionIds : regions[r].st = "mapped")

(***************************************************************************)
(* C10, amended.  The same, over the sequences in which iomem_alloc is     *)
(* invoked only while no region is held: the flag is set exactly when      *)
(* data->mem_region is allocated and mapped and no other region is; a      *)
(* failed alignment query or allocation leaves nothing allocated, a        *)
(* failed mapping frees the region it allocated, and both leave the flag   *)
(* false; iomem_free with a region held unmaps it, then frees it, once,    *)
(* and clears the flag; iomem_free with none held makes no call.           *)
(* iomem_alloc invoked while the flag is set leaves it set.  When it fails *)
(* at the alignment query or at the allocation, the record, the flag and   *)
(* every region are as before.  When the backend hands out a new region,   *)
(* that region replaces the recorded one, mapped, or freed when its        *)
(* mapping failed, and every other region is as before.  No step but an    *)
(* iomem_free changes a mapped region, and iomem_free changes only the     *)
(* recorded one: a mapped region that was replaced in the record stays     *)
(* mapped.                                                                 *)
(***************************************************************************)
C10_Tracks ==
    /\ has_mem_region =>
           mem_region \in RegionIds /\ regions[mem_region].st = "mapped"
    /\ \A r \in RegionIds :
           /\ regions[r].st = "mapped" => (has_mem_region /\ r = mem_region)
           /\ regions[r].st # "allocated"
           /\ regions[r].nfree <= 1

C10_Step ==
    (/\ C10_Tracks
     /\ last'.op \in {"iomem_alloc", "iomem_free"}
     /\ WorkerLive /\ ub = "none" /\ ub' = "none"
     /\ res'.heap["data"] = "live"
     /\ ~(last'.op = "iomem_alloc" /\ has_mem_region))
    =>
    /\ C10_Tracks'
    /\ (last'.op = "iomem_alloc" /\ last'.ret # 0) =>
           /\ ~has_mem_region'
           /\ \A r \in RegionIds : regions'[r].st \in {"none", "freed"}
           /\ \A i \in Made(log', "blkio_map_mem_region") :
                  /\ i < Len(log')
                  /\ log'[i + 1] =
                       Call("blkio_free_mem_region", log'[i].arg, 0)
    /\ (last'.op = "iomem_alloc" /\ last'.ret = 0) =>
           /\ has_mem_region'
           /\ regions[mem_region'].st = "none"
    /\ (last'.op = "iomem_free" /\ has_mem_region) =>
           /\ log' = <<Call("blkio_unmap_mem_region", ToString(mem_region), 0),
                       Call("blkio_free_mem_region", ToString(mem_region), 0)>>
           /\ regions'[mem_region] = [st |-> "freed", nfree |-> 1]
           /\ ~has_mem_region'
    /\ (last'.op = "iomem_free" /\ ~has_mem_region) =>
           /\ log' = <<>>
           /\ regions' = regions /\ ~has_mem_region'

C10_HeldStep ==
    (/\ last'.op = "iomem_alloc" /\ has_mem_region
     /\ WorkerLive /\ ub = "none" /\ ub' = "none"
     /\ res'.heap["data"] = "live")
    =>
    /\ has_mem_region'
    /\ IF \E i \in Made(log', "blkio_alloc_mem_region") : log'[i].ret = 0
       THEN /\ mem_region' \in RegionIds \ {mem_region}
            /\ regions[mem_region'].st = "none"
            /\ regions'[mem_region'] =
                   IF last'.ret = 0 THEN [st |-> "mapped", nfree |-> 0]
                                    ELSE [st |-> "freed", nfree |-> 1]
            /\ \A q \in RegionIds \ {mem_region'} : regions'[q] = regions[q]
       ELSE /\ last'.ret # 0
            /\ mem_region' = mem_region
            /\ regions' = regions

C10_ReleaseStep ==
    /\ \A r \in RegionIds :
           (regions[r].st = "mapped" /\ regions'[r] # regions[r]) =>
               (last'.op = "iomem_free" /\ r = mem_region)
    /\ mem_region' # mem_region =>
           /\ last'.op = "iomem_alloc"
           /\ mem_region' \in RegionIds /\ regions[mem_region'].st = "none"

C10_FlagTracksHeldRegion ==
    [][C10_Step /\ C10_HeldStep /\ C10_ReleaseStep]_vars

(* a region was freed once while none was held; later an iomem_alloc     *)
(* invoked with a region held failed to map its new region: that region   *)
(* is freed and recorded, the flag is still set, and the region held      *)
(* before is still mapped                                                  *)
C10_Witness ==
    /\ ub = "none"
    /\ last.op = "iomem_alloc" /\ last.ret = 1
    /\ has_mem_region
    /\ mem_region \in RegionIds
    /\ regions[mem_region] = [st |-> "freed", nfree |-> 1]
    /\ \E i \in Made(log, "blkio_map_mem_region") :
           /\ log[i].ret # 0
           /\ log[i + 1] = Call("blkio_free_mem_region",
                                ToString(mem_region), 0)
    /\ \E a, b \in RegionIds \ {mem_region} :
           /\ a < b
           /\ regions[a] = [st |-> "freed", nfree |-> 1]
           /\ regions[b].st = "mapped"

(***************************************************************************)
(* C9.  Whatever size S iomem_alloc is called with and whatever alignment  *)
(* A the backend reports, the region it asks the backend for has the       *)
(* smallest length that is a multiple of A and at least S.                 *)
(***************************************************************************)
MultiplesOf(a) == {k * a : k \in 0 .. SizeMod}

SmallestMultipleAtLeast(len, s, a) ==
    /\ len \in MultiplesOf(a)
    /\ len >= s
    /\ \A m \in MultiplesOf(a) : m >= s => m >= len

C9_SmallestMultiple ==
    (last.op = "iomem_alloc" /\ log # <<>> /\ log[1].ret = 0) =>
        /\ Len(log) >= 2
        /\ log[2].fn = "blkio_alloc_mem_region"
        /\ alloc_req.made
        /\ SmallestMultipleAtLeast(alloc_req.len, req_size, mem_align)

(***************************************************************************)
(* C1.  In each wait mode: when the N requests in flight (1 <= N <=        *)
(* iodepth, distinct tags) are reaped with getevents(min = N, max = N) and *)
(* no backend call fails, getevents returns N and the events 0 .. N-1      *)
(* translate to each of the N tags exactly once.                           *)
(***************************************************************************)
C1_ReapsEveryTagOnce ==
    (/\ ge.pc = "ret" /\ ge.ret >= 0
     /\ ge.min = ge.max /\ ge.min >= 1 /\ ge.min = Cardinality(Busy))
    =>
    /\ ge.ret = ge.min
    /\ \A g \in Busy :
           Cardinality({i \in 0 .. (ge.ret - 1) : EventOf(i).tag = g}) = 1

C1_Witness ==
    /\ opt.wait_mode = "eventfd"
    /\ ge.pc = "ret" /\ ge.ret = IoDepth /\ ge.min = IoDepth
    /\ ge.did_read
    /\ Busy = Tags
    /\ EventOf(0).tag = IoDepth

(***************************************************************************)
(* C2.  In each wait mode and for every min <= max <= iodepth: a count n   *)
(* that getevents returns satisfies min <= n <= max, and the slots         *)
(* 0 .. n-1 hold n distinct records, written by this call; no drain is     *)
(* asked for more than max minus what is collected, none writes at or      *)
(* beyond slot max, none writes a slot a drain of the same call wrote.     *)
(***************************************************************************)
C2_ReapWithinBounds ==
    /\ (ge.pc = "ret" /\ ge.ret >= 0) =>
           /\ ge.min <= ge.ret /\ ge.ret <= ge.max
           /\ ge.wrote = 0 .. (ge.ret - 1)
           /\ \A i \in 0 .. (ge.ret - 1) :
                  /\ completions[i].user_data \in Tags
                  /\ \A j \in 0 .. (ge.ret - 1) :
                         i # j => completions[i].user_data
                                      # completions[j].user_data
    /\ ge.pc = "doio" => ge.maxc <= ge.max - ge.n
    /\ \A i \in ge.wrote : i < ge.max
    /\ ~ge.clobber

C2_Witness ==
    /\ opt.wait_mode = "loop"
    /\ ge.pc = "ret" /\ ge.ret = IoDepth /\ ge.min = 1
    /\ ge.ncalls = 2

(***************************************************************************)
(* C3.  In the loop and the eventfd wait modes, getevents with min = 0     *)
(* never reads the completion fd and never waits: it makes at most one     *)
(* blkioq_do_io call, asking for a minimum of 0 (none in the loop mode),   *)
(* and returns a count that may be 0.                                      *)
(***************************************************************************)
C3_MinZeroNeverBlocks ==
    (opt.wait_mode \in {"loop", "eventfd"} /\ ge.pc # "idle" /\ ge.min = 0)
    =>
    /\ ge.pc # "read" /\ ~ge.did_read
    /\ ge.ncalls <= 1
    /\ ge.pc = "doio" => ge.minc = 0
    /\ opt.wait_mode = "loop" => (ge.pc = "ret" /\ ge.ret = 0 /\ ge.ncalls = 0)
    /\ (ge.pc = "ret" /\ ge.fail = "none") => ge.ret \in 0 .. ge.max

C3_Witness ==
    /\ opt.wait_mode = "eventfd"
    /\ ge.pc = "ret" /\ ge.min = 0 /\ ge.max >= 1 /\ ge.ret = 0
    /\ dev # {}

(***************************************************************************)
(* C4.  As claimed: in the block wait mode getevents makes one             *)
(* blkioq_do_io call, for [min, max], and passes it the timeout it was     *)
(* given.                                                                  *)
(***************************************************************************)
C4_TimeoutPassedOn ==
    (opt.wait_mode = "block" /\ ge.pc = "doio") =>
        /\ ge.ncalls = 1
        /\ ge.off = 0 /\ ge.minc = ge.min /\ ge.maxc = ge.max
        /\ ge.tmo = ge.t

(***************************************************************************)
(* C4, amended.  In the block wait mode getevents makes one blkioq_do_io   *)
(* call, for [min, max], and passes it no timeout (NULL), whatever timeout *)
(* it was given: the call never ends by timing out, and a count it         *)
(* returns is at least min.                                                *)
(***************************************************************************)
C4_BlockingCallHasNoDeadline ==
    (opt.wait_mode = "block" /\ ge.pc # "idle") =>
        /\ ge.ncalls = 1 /\ ge.site = "block"
        /\ ge.off = 0 /\ ge.minc = ge.min /\ ge.maxc = ge.max
        /\ ge.tmo = "NULL"
        /\ ge.fail # "timeout"
        /\ (ge.pc = "ret" /\ ge.ret >= 0) => (ge.ret >= ge.min /\ ge.ret = ge.n)

C4_Witness ==
    /\ opt.wait_mode = "block"
    /\ ge.pc = "doio" /\ ge.t = "ts" /\ ge.min >= 1
    /\ Len(cq) < ge.minc
    /\ dev # {}

(***************************************************************************)
(* C11.  As claimed: when post_init registered the harness's buffer (no    *)
(* region was allocated by the engine), a following iomem_free never calls *)
(* blkio_free_mem_region on it and unmaps the span that was registered,    *)
(* and nothing else.                                                       *)
(***************************************************************************)
C11_External ==
    /\ WorkerLive /\ ub = "none"
    /\ ext_mapped /\ ~has_mem_region
    /\ \A r \in RegionIds : regions[r].st = "none"

C11_ReleaseUnmapsExternalStep ==
    (C11_External /\ last'.op = "iomem_free") =>
        /\ Made(log', "blkio_free_mem_region") = {}
        /\ log' = <<Call("blkio_unmap_mem_region", "orig_buffer", 0)>>
        /\ ~ext_mapped'

C11_ReleaseUnmapsExternal == [][C11_ReleaseUnmapsExternalStep]_vars

(***************************************************************************)
(* C11, amended.  When post_init registered the harness's buffer, a        *)
(* following iomem_free makes no backend call at all: it never calls       *)
(* blkio_free_mem_region on the buffer, and it does not unmap it either;   *)
(* the span stays mapped.                                                  *)
(***************************************************************************)
C11_ReleaseLeavesExternalStep ==
    (C11_External /\ last'.op = "iomem_free") =>
        /\ log' = <<>>
        /\ ext_mapped' /\ ~has_mem_region'
        /\ regions' = regions

C11_ReleaseLeavesExternal == [][C11_ReleaseLeavesExternalStep]_vars

C11_Witness ==
    /\ C11_External
    /\ last.op = "iomem_free" /\ log = <<>>
    /\ res.blk["worker"] = "started"

(***************************************************************************)
(* C12.  fio_blkio_set_props_from_str takes the entries in their order in  *)
(* the string, splits each at its first '=' and applies the trimmed name   *)
(* and value as one property; at the first entry without '=', with an      *)
(* empty name, or rejected by the backend, the call fails (it returns      *)
(* nonzero) and neither that entry nor a later one is applied, the earlier *)
(* ones are; a NULL string applies nothing and returns 0; the caller's     *)
(* string is not modified.                                                 *)
(***************************************************************************)
RECURSIVE EntriesOf(_)
EntriesOf(ptr) ==
    LET nx == GetNextStr(ptr)
    IN  IF ~nx.found THEN <<>> ELSE <<nx.name>> \o EntriesOf(nx.ptr)

Trimmed(t) ==
    LET solid == {i \in 1 .. Len(t) : t[i] # " "}
    IN  IF solid = {} THEN <<>>
        ELSE SubSeq(t, CHOOSE i \in solid : \A j \in solid : i <= j,
                       CHOOSE i \in solid : \A j \in solid : i >= j)

FirstEq(e)   == CHOOSE i \in 1 .. Len(e) :
                    e[i] = "=" /\ \A j \in 1 .. (i - 1) : e[j] # "="
HasEq(e)     == \E i \in 1 .. Len(e) : e[i] = "="
NameOf(e)    == Trimmed(SubSeq(e, 1, FirstEq(e) - 1))
ValueOf(e)   == Trimmed(SubSeq(e, FirstEq(e) + 1, Len(e)))
Malformed(e) == ~HasEq(e) \/ NameOf(e) = <<>>

AppliedCalls == SelectSeq(props.calls, LAMBDA c : c.ret = 0)

C12_PropsAppliedInOrder ==
    props.pc \in {"done", "aborted"} =>
        /\ props.caller = props.str
        /\ props.str.null =>
               (props.pc = "done" /\ props.ret = 0 /\ props.calls = <<>>)
        /\ (~props.str.null /\ props.dup = 0) =>
               LET es     == EntriesOf(BasePtr(props.str.s))
                   fails  == {i \in 1 .. Len(es) :
                                 Malformed(es[i]) \/ i = props.rej}
                   n      == IF fails = {} THEN Len(es)
                             ELSE (CHOOSE i \in fails :
                                       \A j \in fails : i <= j) - 1
               IN  /\ Len(AppliedCalls) = n
                   /\ \A i \in 1 .. n :
                          /\ AppliedCalls[i].name = NameOf(es[i])
                          /\ AppliedCalls[i].value = ValueOf(es[i])
                   /\ fails # {} => (props.pc = "done" /\ props.ret # 0)

(***************************************************************************)
(* C13.  A queue call for an io_u whose ddir is none of read, write, trim, *)
(* sync and datasync returns FIO_Q_COMPLETED with io_u->error = ENOTSUP,   *)
(* makes no libblkio call and changes nothing in the queue, the device or  *)
(* the completions; at any time, the tags that are enqueued, with the      *)
(* device, completed, or returned by getevents and not yet translated are  *)
(* tags of requests that queue accepted, so the refused io_u is never      *)
(* among them.                                                             *)
(***************************************************************************)
Supported == {"read", "write", "trim", "sync", "datasync"}

InPipeline == enq \cup dev \cup {cq[i].user_data : i \in 1 .. Len(cq)}

Returned ==
    IF ge.pc \in {"ret", "deliver"} /\ ge.ret > 0
    THEN {completions[i].user_data : i \in ev.i .. (ge.ret - 1)}
    ELSE {}

C13_State ==
    /\ InPipeline \cup Returned \subseteq Busy
    /\ (last.op = "queue" /\ last.io_u.ddir \notin Supported) =>
           /\ last.ret = FIO_Q_COMPLETED
           /\ ev.tag = last.io_u.tag /\ ev.error = ENOTSUP
           /\ log = <<>>
           /\ iou[last.io_u.tag] = "free"
           /\ last.io_u.tag \notin InPipeline \cup Returned

C13_Step ==
    (/\ last'.op = "queue" /\ last'.io_u.ddir \notin Supported
     /\ <<last, log, ev>>' # <<last, log, ev>>)
    =>
    /\ enq' = enq /\ dev' = dev /\ cq' = cq /\ efd' = efd
    /\ completions' = completions /\ iou' = iou

C13_UnsupportedFailsAtOnce == []C13_State /\ [][C13_Step]_vars

C13_Witness ==
    /\ last.op = "queue" /\ last.io_u.ddir = "wait"
    /\ last.ret = FIO_Q_COMPLETED /\ ev.error = ENOTSUP
    /\ cq # <<>>
    /\ iou[last.io_u.tag] = "free"

(***************************************************************************)
(* C14.  A queue call for a read, write, trim, sync or datasync io_u makes *)
(* exactly one libblkio call and returns FIO_Q_QUEUED.  The call carries   *)
(* the io_u as user_data and the io_u's offset and length: reads and       *)
(* writes go to blkioq_readv / blkioq_writev with the one-element iovec    *)
(* {xfer_buf, xfer_buflen} exactly when libblkio_vectored is set, else to  *)
(* blkioq_read / blkioq_write with xfer_buf and xfer_buflen; a trim goes   *)
(* to blkioq_write_zeroes exactly when libblkio_write_zeroes_on_trim is    *)
(* set, else to blkioq_discard; sync and datasync go to blkioq_flush.      *)
(***************************************************************************)
C14_DispatchByKind ==
    (last.op = "queue" /\ last.io_u.ddir \in Supported) =>
        LET u == last.io_u
            c == log[1]
        IN
        /\ last.ret = FIO_Q_QUEUED
        /\ Len(log) = 1
        /\ c.arg.user_data = u.tag /\ c.arg.flags = 0
        /\ u.ddir = "read" =>
               c.fn = (IF opt.vectored THEN "blkioq_readv" ELSE "blkioq_read")
        /\ u.ddir = "write" =>
               c.fn = (IF opt.vectored THEN "blkioq_writev"
                       ELSE "blkioq_write")
        /\ u.ddir \in {"read", "write"} =>
               /\ c.arg.start = u.offset
               /\ opt.vectored =>
                      /\ c.arg.iovcnt = 1
                      /\ c.arg.iovec = <<[iov_base |-> u.xfer_buf,
                                          iov_len |-> u.xfer_buflen]>>
               /\ ~opt.vectored =>
                      /\ c.arg.buf = u.xfer_buf
                      /\ c.arg.len = u.xfer_buflen
        /\ u.ddir = "trim" =>
               /\ (c.fn = "blkioq_write_zeroes" <=> opt.wz)
               /\ (c.fn = "blkioq_discard" <=> ~opt.wz)
               /\ c.fn \in {"blkioq_write_zeroes", "blkioq_discard"}
               /\ c.arg.start = u.offset /\ c.arg.len = u.xfer_buflen
        /\ u.ddir \in {"sync", "datasync"} => c.fn = "blkioq_flush"

C14_Witness ==
    /\ last.op = "queue" /\ last.ret = FIO_Q_QUEUED
    /\ last.io_u.ddir = "trim" /\ opt.wz
    /\ last.io_u.offset = 0 /\ last.io_u.xfer_buflen = 8
    /\ log = <<Call("blkioq_write_zeroes",
                    [start |-> 0, len |-> 8, user_data |-> last.io_u.tag,
                     flags |-> 0], 0)>>
    /\ last.io_u.tag \in enq

(***************************************************************************)
(* C15.  A request the backend completes with a nonzero result does not    *)
(* make getevents fail: getevents returns -1 only when one of its own      *)
(* calls failed, and counts every completion it drained.  fio_blkio_event  *)
(* of a slot returns the io_u the request was submitted with, with error 0 *)
(* exactly when the result was 0 and the negated result otherwise, and     *)
(* changes nothing else: not the slots, not the queue, not another io_u.   *)
(***************************************************************************)
C15_State ==
    /\ (ge.pc \in {"ret", "failed"} /\ ge.ret < 0) => ge.fail # "none"
    /\ (ge.pc = "ret" /\ ge.fail = "none") =>
           /\ ge.ret >= 0 /\ ge.ret = ge.n
           /\ ge.ret = Cardinality(ge.wrote)

C15_Step ==
    (ge.pc = "deliver" /\ <<ge, ev>>' # <<ge, ev>> /\ ub' = "none") =>
        LET c == completions[ev.i] IN
        /\ ev'.tag = c.user_data
        /\ iou[c.user_data] = "busy"
        /\ (ev'.error = 0 <=> c.ret = 0)
        /\ ev'.error = 0 - c.ret
        /\ completions' = completions
        /\ cq' = cq /\ enq' = enq /\ dev' = dev /\ efd' = efd
        /\ \A g \in Tags \ {c.user_data} : iou'[g] = iou[g]

C15_FailedRequestIsDelivered == []C15_State /\ [][C15_Step]_vars

C15_Witness ==
    /\ last.op = "event" /\ ev.error = 5
    /\ ge.pc = "deliver" /\ ge.ret = IoDepth /\ ge.fail = "none"
    /\ completions[ev.i].ret = 0

(***************************************************************************)
(* C16.  As claimed: in every life of a worker the instance is destroyed   *)
(* exactly once, and when blkio_destroy is called no memory region is      *)
(* mapped on it any more, neither one the engine allocated nor the         *)
(* harness's buffer that post_init registered.                             *)
(***************************************************************************)
DestroyStep ==
    /\ last'.op = "cleanup"
    /\ res'.ndestroy["worker"] = res.ndestroy["worker"] + 1

C16_DestroyedOnce ==
    /\ res.ndestroy["worker"] <= 1
    /\ last.op = "cleanup" =>
           (res.ndestroy["worker"] = 1 /\ res.blk["worker"] = "destroyed")

C16_NothingMappedStep ==
    DestroyStep =>
        /\ \A r \in RegionIds : regions[r].st \in {"none", "freed"}
        /\ ~ext_mapped

C16_DestroyAfterAllUnmapped ==
    []C16_DestroyedOnce /\ [][C16_NothingMappedStep]_vars

(***************************************************************************)
(* C16, amended.  In every life of a worker the instance is destroyed      *)
(* exactly once.  When blkio_destroy is called, every region the engine    *)
(* allocated has been unmapped and freed, once, by iomem_free; but the     *)
(* harness's buffer that post_init registered is never unmapped by the     *)
(* engine: once mapped it is still mapped when blkio_destroy is called.    *)
(***************************************************************************)
C16_OwnedUnmappedStep ==
    /\ DestroyStep =>
           \A r \in RegionIds :
               /\ regions[r].st \in {"none", "freed"}
               /\ regions[r].nfree <= 1
    /\ ext_mapped => ext_mapped'

C16_DestroyAfterOwnedUnmapped ==
    []C16_DestroyedOnce /\ [][C16_OwnedUnmappedStep]_vars

C16_Witness ==
    /\ last.op = "cleanup" /\ res.blk["worker"] = "destroyed"
    /\ mem_region \in RegionIds
    /\ regions[mem_region] = [st |-> "freed", nfree |-> 1]
    /\ ~ext_mapped
    /\ Busy = {} /\ ge.pc = "idle"

(***************************************************************************)
(* C17.  The calls fio_blkio_init makes to set the instance up are, in     *)
(* this order, and each only if every earlier one succeeded (a "direct"    *)
(* property the backend does not know counts as success): blkio_create,    *)
(* "direct", "read-only", one blkio_set_str per pre-connect property,      *)
(* blkio_connect, one blkio_set_str per pre-start property, "num-queues",  *)
(* "num-poll-queues", blkio_start, and the retrieval of the queue.  The    *)
(* two counts are 1 and 0 without hipri and 0 and 1 with it, and the queue *)
(* retrieved is the one of the kind whose count is 1.                      *)
(***************************************************************************)
SetupCalls ==
    {"blkio_create", "blkio_set_bool:direct", "blkio_set_bool:read-only",
     "blkio_set_str", "blkio_connect", "blkio_set_int:num-queues",
     "blkio_set_int:num-poll-queues", "blkio_start", "blkio_get_queue",
     "blkio_get_poll_queue"}

SetStrTimes(n) == [i \in 1 .. n |-> "blkio_set_str"]

ExpectedOrder(o) ==
    <<"blkio_create", "blkio_set_bool:direct", "blkio_set_bool:read-only">>
    \o SetStrTimes(Len(o.pre_connect_props.ents))
    \o <<"blkio_connect">>
    \o SetStrTimes(Len(o.pre_start_props.ents))
    \o <<"blkio_set_int:num-queues", "blkio_set_int:num-poll-queues",
         "blkio_start">>
    \o <<IF o.hipri THEN "blkio_get_poll_queue" ELSE "blkio_get_queue">>

Succeeded(c) ==
    c.ret = 0 \/ (c.fn = "blkio_set_bool:direct" /\ c.ret = 0 - ENOENT)

C17_InitCallOrder ==
    last.op = "init" =>
        LET made == SelectSeq(log, LAMBDA c : c.fn \in SetupCalls)
            want == ExpectedOrder(opt)
        IN
        /\ Len(made) <= Len(want)
        /\ \A i \in 1 .. Len(made) : made[i].fn = want[i]
        /\ \A i \in 1 .. (Len(made) - 1) : Succeeded(made[i])
        /\ last.ret = 0 =>
               (Len(made) = Len(want) /\ Succeeded(made[Len(made)]))
        /\ \A i \in 1 .. Len(made) :
               /\ made[i].fn = "blkio_set_int:num-queues" =>
                      made[i].arg = (IF opt.hipri THEN "0" ELSE "1")
               /\ made[i].fn = "blkio_set_int:num-poll-queues" =>
                      /\ made[i].arg = (IF opt.hipri THEN "1" ELSE "0")
                      /\ {made[i - 1].arg, made[i].arg} = {"0", "1"}

C17_Witness ==
    /\ last.op = "init" /\ last.ret = 0
    /\ opt.hipri
    /\ opt.pre_connect_props.ents # <<>> /\ opt.pre_start_props.ents # <<>>
    /\ \E i \in 1 .. Len(log) : log[i].fn = "blkio_get_poll_queue"

(***************************************************************************)
(* C18.  In the eventfd wait mode a getevents call with min >= 1 returns   *)
(* whenever the completions it has collected, those waiting in the queue   *)
(* and the requests the device still works on are at least min together:   *)
(* no wakeup is lost, whether a completion arrives between the first drain *)
(* and the read(), or the read() consumes a token of completions that were *)
(* drained before.                                                         *)
(***************************************************************************)
C18_Enough == ge.n + Len(cq) + Cardinality(dev) >= ge.min

C18_ReapReturns ==
    (ge.pc \in {"doio", "read"} /\ ge.min >= 1 /\ C18_Enough)
        ~> (ge.pc = "ret")

C18_Witness ==
    /\ opt.wait_mode = "eventfd"
    /\ ge.pc = "read" /\ ge.did_read /\ ge.ncalls = 2
    /\ ge.n = 0 /\ ge.min >= 1
    /\ ~efd /\ cq = <<>> /\ dev # {}

(***************************************************************************)
(* C19.  In the block and the eventfd wait modes every getevents call      *)
(* calls blkioq_do_io at least once.  In the loop wait mode a call with    *)
(* min = 0 calls it not at all and returns 0, whatever max is: the         *)
(* requests enqueued before the call are not handed to the device by it    *)
(* and the completions that are there are not collected by it.             *)
(***************************************************************************)
C19_LoopMinZero == opt.wait_mode = "loop" /\ ge.min = 0

C19_State ==
    /\ (opt.wait_mode \in {"block", "eventfd"} /\ ge.pc # "idle") =>
           ge.ncalls >= 1
    /\ (C19_LoopMinZero /\ ge.pc # "idle") =>
           (ge.pc = "ret" /\ ge.ncalls = 0 /\ ge.ret = 0 /\ ge.wrote = {})

C19_Step ==
    (opt.wait_mode = "loop" /\ ge' # ge
       /\ \/ ge.pc = "idle" /\ ge'.pc # "idle" /\ ge'.min = 0
          \/ ge.pc # "idle" /\ ge.min = 0)
    =>
    /\ enq' = enq /\ dev' = dev
    /\ cq' = cq /\ completions' = completions /\ efd' = efd
    /\ iou' = iou

C19_LoopMinZeroDrainsNothing == []C19_State /\ [][C19_Step]_vars

C19_Witness ==
    /\ opt.wait_mode = "loop"
    /\ ge.pc = "ret" /\ ge.min = 0 /\ ge.max = IoDepth /\ ge.ret = 0
    /\ enq # {} /\ cq # <<>>

(***************************************************************************)
(* C20.  getevents returns -1 exactly when a blkioq_do_io call it made     *)
(* returned a negative result or, in the eventfd mode, a read() of the     *)
(* completion fd did not return the eight bytes of the counter.  The k > 0 *)
(* completions that earlier drains of the same call collected are then not *)
(* reported: no count is returned for them and their io_u's are not        *)
(* handed back by this call.                                               *)
(***************************************************************************)
C20_Collected == {completions[i].user_data : i \in ge.wrote}

C20_State ==
    /\ ge.pc \in {"ret", "failed"} =>
           /\ (ge.ret = -1 <=> ge.fail # "none")
           /\ ge.ret >= -1
           /\ ge.fail = "read" => (opt.wait_mode = "eventfd" /\ ge.did_read)
           /\ ge.fail # "none" =>
                  /\ Cardinality(C20_Collected) = ge.n
                  /\ C20_Collected \subseteq Busy
                  /\ C20_Collected \cap InPipeline = {}
    /\ ge.pc = "deliver" => ge.fail = "none"

C20_Step ==
    (ge.pc \in {"ret", "failed"} /\ ge.fail # "none") =>
        /\ ge'.pc \in {"ret", "failed"} /\ ge'.fail = ge.fail
        /\ iou' = iou /\ completions' = completions

C20_ErrorDropsCollected == []C20_State /\ [][C20_Step]_vars

C20_Witness ==
    /\ opt.wait_mode = "eventfd"
    /\ ge.pc = "failed" /\ ge.fail = "read" /\ ge.ret = -1
    /\ ge.n = 1 /\ ge.min = IoDepth
    /\ last = [op |-> "getevents", ret |-> -1]

====
